---- MODULE Spec2Model ----
(***************************************************************************)
(* Model of script.py, the pyRevit "Copy Parameter" push button: pick a    *)
(* source element, toggle-pick targets, offer the parameter names common   *)
(* to the source and all targets, then copy the picked parameters by name. *)
(*                                                                         *)
(* Text is a sequence of one-character strings, so that strip(), lower(),  *)
(* split(",") and sorted() are computed rather than assumed.  A parameter  *)
(* value is a record [kind, n, s]; kind "None" is Python's None.  The host *)
(* document is `params` (element id -> list of parameters) and `live` (the *)
(* ids doc.GetElement resolves).  A host call that can raise takes its     *)
(* outcome from the input `fault`: LookupParameter and the IsReadOnly and  *)
(* StorageType reads ("lookup"), As...() ("read"), Set ("write").  A Set   *)
(* that raises stores nothing; a Set that returns stores the value.        *)
(***************************************************************************)
EXTENDS Integers, Sequences, FiniteSets, TLC

VARIABLES pc, outcome, live, params, txn_start, source, target_ids, picks,
          last_pick, src_map, common_keys_sorted, picked_display, extra,
          picked_names, ti, ni, ok_any, elem_updated, elem_skipped, sets_ok,
          sets_fail, fail_samples, calls, nfaults, nremoved

vars == <<pc, outcome, live, params, txn_start, source, target_ids, picks,
          last_pick, src_map, common_keys_sorted, picked_display, extra,
          picked_names, ti, ni, ok_any, elem_updated, elem_skipped, sets_ok,
          sets_fail, fail_samples, calls, nfaults, nremoved>>

(* ---------------------------- bounds ----------------------------------- *)
MaxPicks == 3
MaxFaults == 1
MaxRemoved == 1

(* ---------------------------- text ------------------------------------- *)
UpperChars == <<"A","B","C","D","E","F","G","H","I","J","K","L","M",
                "N","O","P","Q","R","S","T","U","V","W","X","Y","Z">>
LowerChars == <<"a","b","c","d","e","f","g","h","i","j","k","l","m",
                "n","o","p","q","r","s","t","u","v","w","x","y","z">>
Whitespace == {" ", "\t"}
\* the characters in use, in code point order
Alphabet == <<"\t", " ", ",">> \o UpperChars \o <<"[", "]">> \o LowerChars \o <<"|">>

Ord(c) == CHOOSE i \in 1..Len(Alphabet) : Alphabet[i] = c

LowerMap ==
  [c \in {UpperChars[i] : i \in 1..Len(UpperChars)} |->
     LowerChars[CHOOSE i \in 1..Len(UpperChars) : UpperChars[i] = c]]

LowerChar(c) == IF c \in DOMAIN LowerMap THEN LowerMap[c] ELSE c

Lower(s) == [i \in 1..Len(s) |-> LowerChar(s[i])]

RECURSIVE LStrip(_)
LStrip(s) == IF s = <<>> \/ s[1] \notin Whitespace THEN s ELSE LStrip(Tail(s))

RECURSIVE RStrip(_)
RStrip(s) ==
  IF s = <<>> \/ s[Len(s)] \notin Whitespace THEN s ELSE RStrip(SubSeq(s, 1, Len(s) - 1))

Strip(s) == RStrip(LStrip(s))

RECURSIVE SplitComma(_)
SplitComma(s) ==
  LET commas == {i \in 1..Len(s) : s[i] = ","} IN
  IF commas = {} THEN <<s>>
  ELSE LET i == CHOOSE k \in commas : \A j \in commas : k <= j IN
       <<SubSeq(s, 1, i - 1)>> \o SplitComma(SubSeq(s, i + 1, Len(s)))

RECURSIVE StrLess(_, _)
StrLess(a, b) ==
  IF a = <<>> THEN b # <<>>
  ELSE IF b = <<>> THEN FALSE
  ELSE IF a[1] = b[1] THEN StrLess(Tail(a), Tail(b))
  ELSE Ord(a[1]) < Ord(b[1])

RECURSIVE Sorted(_)
Sorted(S) ==
  IF S = {} THEN <<>>
  ELSE LET m == CHOOSE x \in S : \A y \in S \ {x} : StrLess(x, y) IN
       <<m>> \o Sorted(S \ {m})

(* ---------------------------- names ------------------------------------ *)
Bauteilebene == <<"B","a","u","t","e","i","l","e","b","e","n","e">>
Arbeitsebene == <<"A","r","b","e","i","t","s","e","b","e","n","e">>
BAUTEILEBENE == <<"B","A","U","T","E","I","L","E","B","E","N","E">>
Comments == <<"C","o","m","m","e","n","t","s">>
comments == <<"c","o","m","m","e","n","t","s">>
Width == <<"W","i","d","t","h">>
Mark == <<"M","a","r","k">>
MARK == <<"M","A","R","K">>
Level == <<"L","e","v","e","l">>
Zone == <<"Z","o","n","e">>

BLOCKED_NAMES == <<Bauteilebene, Arbeitsebene>>

\* (s or u"").strip(); the names met here are text, never None
_clean(s) == Strip(s)

\* _clean(b).lower() for b in BLOCKED_NAMES
BlockedKeys == {Lower(_clean(BLOCKED_NAMES[i])) : i \in 1..Len(BLOCKED_NAMES)}

\* variant: the comparison without lower()
_is_blocked_case_sensitive(name) ==
  _clean(name) \in {_clean(BLOCKED_NAMES[i]) : i \in 1..Len(BLOCKED_NAMES)}

_is_blocked(name) == Lower(_clean(name)) \in BlockedKeys

(* ---------------------------- host values ------------------------------ *)
NoElement == 0
ElementIds == {1, 2, 3, 4}

NoneVal == [kind |-> "None", n |-> 0, s |-> <<>>]
DoubleVal(x) == [kind |-> "Double", n |-> x, s |-> <<>>]
IntegerVal(x) == [kind |-> "Integer", n |-> x, s |-> <<>>]
StringVal(t) == [kind |-> "String", n |-> 0, s |-> t]
ElementIdVal(i) == [kind |-> "ElementId", n |-> i, s |-> <<>>]
InvalidElementId == ElementIdVal(-1)

StorageTypes == {"Double", "Integer", "String", "ElementId", "None"}

Param(name, st, ro, val) == [name |-> name, st |-> st, ro |-> ro, val |-> val]

GetElement(L, id) == IF id \in L THEN id ELSE NoElement

\* Element.LookupParameter: index of the first parameter with that exact
\* name, 0 when there is none
LookupParameter(ps, pname) ==
  LET hits == {i \in 1..Len(ps) : ps[i].name = pname} IN
  IF hits = {} THEN 0 ELSE CHOOSE i \in hits : \A j \in hits : i <= j

_storage_label(st) ==
  CASE st = "Double" -> <<"D","o","u","b","l","e">>
    [] st = "Integer" -> <<"I","n","t","e","g","e","r">>
    [] st = "String" -> <<"S","t","r","i","n","g">>
    [] st = "ElementId" -> <<"E","l","e","m","e","n","t","I","d">>
    [] OTHER -> <<"N","o","n","e">>


(* ---------------------------- catalogue -------------------------------- *)
\* u"{}   [{} | {}]".format(name, st, ro)
Display(name, st, ro) ==
  name \o <<" ", " ", " ", "[">> \o _storage_label(st) \o <<" ", "|", " ">>
       \o (IF ro THEN <<"R", "O">> ELSE <<"R", "W">>) \o <<"]">>

\* the indices of the parameters whose cleaned name is neither empty nor blocked
UsableParams(ps) ==
  {i \in 1..Len(ps) : _clean(ps[i].name) # <<>> /\ ~_is_blocked(_clean(ps[i].name))}

_param_names_lower(ps) == {Lower(_clean(ps[i].name)) : i \in UsableParams(ps)}

\* lower_name -> [name, display]; the first parameter of each key wins
_build_source_param_map(ps) ==
  [key \in {Lower(_clean(ps[i].name)) : i \in UsableParams(ps)} |->
     LET hits == {i \in UsableParams(ps) : Lower(_clean(ps[i].name)) = key}
         first == CHOOSE i \in hits : \A j \in hits : i <= j
     IN [name |-> _clean(ps[first].name),
         display |-> Display(_clean(ps[first].name), ps[first].st, ps[first].ro)]]

\* common_keys &= _param_names_lower(tgt) over the target list, skipping the
\* targets the document no longer resolves
\* variant: the loop stops at the first unresolved target
RECURSIVE CommonKeysBreakOnMissing(_, _, _, _)
CommonKeysBreakOnMissing(keys, tids, P, L) ==
  IF tids = <<>> THEN keys
  ELSE IF GetElement(L, Head(tids)) = NoElement THEN keys
  ELSE CommonKeysBreakOnMissing(keys \cap _param_names_lower(P[Head(tids)]), Tail(tids), P, L)

\* lines 256-262
RECURSIVE CommonKeys(_, _, _, _)
CommonKeys(keys, tids, P, L) ==
  IF tids = <<>> THEN keys
  ELSE IF GetElement(L, Head(tids)) = NoElement
       THEN CommonKeys(keys, Tail(tids), P, L)
       ELSE CommonKeys(keys \cap _param_names_lower(P[Head(tids)]), Tail(tids), P, L)

\* picked_names: the catalogue names of the picked display items, in key order
PickedNames(keys_sorted, m, picked) ==
  LET Chosen(k) == m[k].display \in picked
      ks == SelectSeq(keys_sorted, Chosen)
  IN [i \in 1..Len(ks) |-> m[ks[i]].name]

\* the manual extras: every cleaned, non-empty, non-blocked token that is not
\* yet in the list (compared in lower case) is appended
\* variant: the membership test without lower()
RECURSIVE AppendExtrasCaseSensitive(_, _)
AppendExtrasCaseSensitive(names, toks) ==
  IF toks = <<>> THEN names
  ELSE LET n == _clean(Head(toks)) IN
       IF n # <<>> /\ ~_is_blocked(n)
          /\ n \notin {names[i] : i \in 1..Len(names)}
       THEN AppendExtrasCaseSensitive(Append(names, n), Tail(toks))
       ELSE AppendExtrasCaseSensitive(names, Tail(toks))

\* lines 305-309
RECURSIVE AppendExtras(_, _)
AppendExtras(names, toks) ==
  IF toks = <<>> THEN names
  ELSE LET n == _clean(Head(toks)) IN
       IF n # <<>> /\ ~_is_blocked(n)
          /\ Lower(n) \notin {Lower(names[i]) : i \in 1..Len(names)}
       THEN AppendExtras(Append(names, n), Tail(toks))
       ELSE AppendExtras(names, Tail(toks))

\* the typed text is [given, text]; None and "" are both falsy
WithExtras(names, typed) ==
  IF typed.given /\ typed.text # <<>>
  THEN AppendExtras(names, SplitComma(typed.text))
  ELSE names

(* ---------------------------- per-field copy --------------------------- *)
KnownTypes == {"Double", "Integer", "String", "ElementId"}

\* p.AsDouble() / AsInteger() / AsString() / AsElementId(): the stored value
_get_param_value(p) == IF p.st \in KnownTypes THEN p.val ELSE NoneVal

\* [ok, p, set]: the value returned, the parameter afterwards and whether
\* p.Set was called; p.Set(value) stores the value, a String gets "" for None
\* variant: the ElementId branch sets the value and misses its return True
_set_param_value_elementid_falls_through(p, value) ==
  CASE p.st \in {"Double", "Integer"} ->
         [ok |-> TRUE, p |-> [p EXCEPT !.val = value], set |-> TRUE]
    [] p.st = "String" ->
         [ok |-> TRUE, set |-> TRUE,
          p |-> [p EXCEPT !.val = IF value # NoneVal THEN value ELSE StringVal(<<>>)]]
    [] p.st = "ElementId" ->
         [ok |-> FALSE, p |-> [p EXCEPT !.val = value], set |-> TRUE]
    [] OTHER -> [ok |-> FALSE, p |-> p, set |-> FALSE]

\* variant: the Integer branch returns True without p.Set
_set_param_value_integer_not_set(p, value) ==
  CASE p.st = "Double" -> [ok |-> TRUE, p |-> [p EXCEPT !.val = value], set |-> TRUE]
    [] p.st = "Integer" -> [ok |-> TRUE, p |-> p, set |-> FALSE]
    [] p.st = "String" ->
         [ok |-> TRUE, set |-> TRUE,
          p |-> [p EXCEPT !.val = IF value # NoneVal THEN value ELSE StringVal(<<>>)]]
    [] p.st = "ElementId" ->
         [ok |-> TRUE, p |-> [p EXCEPT !.val = value], set |-> TRUE]
    [] OTHER -> [ok |-> FALSE, p |-> p, set |-> FALSE]

\* lines 146-160
_set_param_value(p, value) ==
  CASE p.st = "Double" -> [ok |-> TRUE, p |-> [p EXCEPT !.val = value], set |-> TRUE]
    [] p.st = "Integer" -> [ok |-> TRUE, p |-> [p EXCEPT !.val = value], set |-> TRUE]
    [] p.st = "String" ->
         [ok |-> TRUE, set |-> TRUE,
          p |-> [p EXCEPT !.val = IF value # NoneVal THEN value ELSE StringVal(<<>>)]]
    [] p.st = "ElementId" ->
         [ok |-> TRUE, p |-> [p EXCEPT !.val = value], set |-> TRUE]
    [] OTHER -> [ok |-> FALSE, p |-> p, set |-> FALSE]

\* the checks made before anything is read: the reason of the first one
\* that fails, "" when all pass
\* variant: the storage types are compared before IsReadOnly is tested
FirstFailingCheckTypeBeforeReadOnly(P, src, dst, rawname) ==
  LET pname == _clean(rawname)
      si == LookupParameter(P[src], pname)
      di == LookupParameter(P[dst], pname)
  IN IF pname = <<>> \/ _is_blocked(pname) THEN "blocked/empty"
     ELSE IF si = 0 \/ di = 0 THEN "missing"
     ELSE IF P[src][si].st # P[dst][di].st THEN "type mismatch"
     ELSE IF P[dst][di].ro THEN "read-only"
     ELSE ""

\* lines 165-177
FirstFailingCheck(P, src, dst, rawname) ==
  LET pname == _clean(rawname)
      si == LookupParameter(P[src], pname)
      di == LookupParameter(P[dst], pname)
  IN IF pname = <<>> \/ _is_blocked(pname) THEN "blocked/empty"
     ELSE IF si = 0 \/ di = 0 THEN "missing"
     ELSE IF P[dst][di].ro THEN "read-only"
     ELSE IF P[src][si].st # P[dst][di].st THEN "type mismatch"
     ELSE ""

Faults == {"none", "lookup", "read", "write"}
HostError == "host error"

\* what one call leaves behind: raised (the exception left the function),
\* (ok, why), the parameters afterwards, whether p.Set was carried out,
\* and whether the injected fault was met
Outcome(raised, ok, why, P, wrote, met) ==
  [raised |-> raised, ok |-> ok, why |-> why, P |-> P, wrote |-> wrote, met |-> met]

_try_copy_by_name(P, L, src, dst, rawname, fault) ==
  LET pname == _clean(rawname)
      chk == FirstFailingCheck(P, src, dst, rawname)
  IN IF chk = "blocked/empty" THEN Outcome(FALSE, FALSE, chk, P, FALSE, FALSE)
     ELSE IF fault = "lookup" THEN Outcome(TRUE, FALSE, HostError, P, FALSE, TRUE)
     ELSE IF chk # "" THEN Outcome(FALSE, FALSE, chk, P, FALSE, FALSE)
     ELSE
       LET si == LookupParameter(P[src], pname)
           di == LookupParameter(P[dst], pname)
           sp == P[src][si]
           tp == P[dst][di]
           val == _get_param_value(sp)
           set == _set_param_value(tp, val)
           P2 == [P EXCEPT ![dst][di] = set.p]
       IN IF fault = "read" /\ sp.st \in KnownTypes
            THEN Outcome(FALSE, FALSE, HostError, P, FALSE, TRUE)
          ELSE IF sp.st = "ElementId" /\ val # NoneVal /\ val # InvalidElementId
                  /\ GetElement(L, val.n) = NoElement
            THEN Outcome(FALSE, FALSE, "elementid not in doc", P, FALSE, FALSE)
          ELSE IF fault = "write" /\ tp.st \in KnownTypes
            THEN Outcome(FALSE, FALSE, HostError, P, FALSE, TRUE)
          ELSE IF set.ok THEN Outcome(FALSE, TRUE, "", P2, set.set, FALSE)
          ELSE Outcome(FALSE, FALSE, "unsupported", P2, set.set, FALSE)


(* ---------------------------- the document ----------------------------- *)
\* the elements the user can click: those of the document, and one that
\* doc.GetElement does not resolve
UnresolvedRef == 9
PickRefs == ElementIds \cup {UnresolvedRef}

InitialParams ==
  [e \in ElementIds |->
     CASE e = 1 -> <<Param(Comments, "String", FALSE, StringVal(<<"A">>)),
                     Param(Arbeitsebene, "String", FALSE, StringVal(<<"L">>)),
                     Param(BAUTEILEBENE, "String", FALSE, StringVal(<<"K">>)),
                     Param(Width, "Double", FALSE, DoubleVal(2)),
                     Param(Level, "ElementId", FALSE, ElementIdVal(3)),
                     Param(Mark, "String", FALSE, NoneVal),
                     Param(MARK, "String", TRUE, StringVal(<<"M">>))>>
       [] e = 2 -> <<Param(Comments, "String", FALSE, StringVal(<<>>)),
                     Param(Arbeitsebene, "String", FALSE, StringVal(<<"N">>)),
                     Param(Mark, "String", FALSE, StringVal(<<"X">>)),
                     Param(Width, "Integer", FALSE, IntegerVal(1)),
                     Param(Level, "ElementId", FALSE, InvalidElementId)>>
       [] e = 3 -> <<Param(comments, "String", FALSE, StringVal(<<"B">>)),
                     Param(<<" ">> \o Bauteilebene, "String", FALSE, StringVal(<<"O">>)),
                     Param(Width, "Double", TRUE, DoubleVal(0)),
                     Param(Level, "ElementId", FALSE, ElementIdVal(UnresolvedRef))>>
       [] OTHER -> <<Param(BAUTEILEBENE, "String", FALSE, StringVal(<<"P">>)),
                     Param(Zone, "String", FALSE, StringVal(<<"Z">>))>>]

\* what the user may type into the free-text prompt
ExtraInputs ==
  { [given |-> FALSE, text |-> <<>>],
    [given |-> TRUE, text |-> <<>>],
    [given |-> TRUE, text |-> <<" ">> \o MARK \o <<",", "\t">> \o Arbeitsebene \o <<",">> \o Mark],
    [given |-> TRUE, text |-> comments \o <<",", ",", " ">> \o Lower(Bauteilebene) \o <<" ", ",">> \o BAUTEILEBENE],
    [given |-> TRUE, text |-> <<"w", ",", "x", ",", "y", ",", "X", ",", "z">>] }

NoExtra == [given |-> FALSE, text |-> <<>>]

\* the exceptions PickObject can raise: class name, and whether the message
\* holds "aborted the pick operation"
PickExceptions ==
  { [name |-> "OperationCanceledException", aborted_msg |-> TRUE],
    [name |-> "InvalidOperationException", aborted_msg |-> TRUE],
    [name |-> "InvalidOperationException", aborted_msg |-> FALSE] }

_is_cancel(ex) == ex.name = "OperationCanceledException" \/ ex.aborted_msg

(* ---------------------------- the run ---------------------------------- *)
Init ==
  /\ pc = "pick_source"
  /\ outcome = ""
  /\ live = ElementIds
  /\ params = InitialParams
  /\ txn_start = InitialParams
  /\ source = NoElement
  /\ target_ids = <<>>
  /\ picks = <<>>
  /\ last_pick = ""
  /\ src_map = <<>>
  /\ common_keys_sorted = <<>>
  /\ picked_display = {}
  /\ extra = NoExtra
  /\ picked_names = <<>>
  /\ ti = 1
  /\ ni = 1
  /\ ok_any = FALSE
  /\ elem_updated = 0
  /\ elem_skipped = 0
  /\ sets_ok = 0
  /\ sets_fail = 0
  /\ fail_samples = <<>>
  /\ calls = <<>>
  /\ nfaults = 0
  /\ nremoved = 0

docVars == <<live, params, txn_start, nremoved>>
pickVars == <<source, target_ids, picks, last_pick>>
listVars == <<src_map, common_keys_sorted, picked_display, extra, picked_names>>
copyVars == <<ti, ni, ok_any, elem_updated, elem_skipped, sets_ok, sets_fail,
              fail_samples, calls, nfaults>>

\* 1) pick the source; any exception of the pick is taken as a cancel
PickSource(r) ==
  /\ pc = "pick_source"
  /\ IF GetElement(live, r) = NoElement
     THEN /\ pc' = "exit"
          /\ outcome' = "no source"
          /\ UNCHANGED source
     ELSE /\ pc' = "pick_targets"
          /\ source' = GetElement(live, r)
          /\ UNCHANGED outcome
  /\ UNCHANGED <<docVars, target_ids, picks, last_pick, listVars, copyVars>>

PickSourceRaises ==
  /\ pc = "pick_source"
  /\ pc' = "exit"
  /\ outcome' = "canceled"
  /\ UNCHANGED <<docVars, pickVars, listVars, copyVars>>

\* 2) one click in the target loop; `picks` keeps what doc.GetElement gave
\* for each click of the loop while it runs
\* variant: a click always appends
ToggleAlwaysAppend(ids, id) == Append(ids, id)

\* lines 235-238: remove the id if it is in the list, append it if not
Toggle(ids, id) ==
  IF \E i \in 1..Len(ids) : ids[i] = id
  THEN LET first == CHOOSE i \in 1..Len(ids) :
                      ids[i] = id /\ \A j \in 1..Len(ids) : ids[j] = id => i <= j
       IN SubSeq(ids, 1, first - 1) \o SubSeq(ids, first + 1, Len(ids))
  ELSE Append(ids, id)

PickTarget(r) ==
  /\ pc = "pick_targets"
  /\ Len(picks) < MaxPicks
  /\ picks' = Append(picks, GetElement(live, r))
  /\ last_pick' = "picked"
  /\ target_ids' = IF GetElement(live, r) = NoElement \/ GetElement(live, r) = source
                   THEN target_ids
                   ELSE Toggle(target_ids, GetElement(live, r))
  /\ UNCHANGED <<pc, outcome, docVars, source, listVars, copyVars>>


\* the pick raises: a cancel ends the loop and goes on to 3) the common
\* parameter list, up to the dropdown; anything else is raised again
PickTargetRaises(ex) ==
  /\ pc = "pick_targets"
  /\ picks' = <<>>
  /\ IF ~_is_cancel(ex)
     THEN /\ last_pick' = "error"
          /\ pc' = "raised"
          /\ UNCHANGED <<outcome, src_map, common_keys_sorted>>
     ELSE /\ last_pick' = "cancel"
          /\ IF target_ids = <<>>
             THEN /\ pc' = "exit"
                  /\ outcome' = "no targets"
                  /\ UNCHANGED <<src_map, common_keys_sorted>>
             ELSE LET m == _build_source_param_map(params[source])
                      common_keys == CommonKeys(DOMAIN m, target_ids, params, live)
                  IN /\ src_map' = m
                     /\ IF common_keys = {}
                        THEN /\ pc' = "exit"
                             /\ outcome' = "no common"
                             /\ UNCHANGED common_keys_sorted
                        ELSE /\ pc' = "select_params"
                             /\ common_keys_sorted' = Sorted(common_keys)
                             /\ UNCHANGED outcome
  /\ UNCHANGED <<docVars, source, target_ids, picked_display, extra, picked_names, copyVars>>

display_items == [i \in 1..Len(common_keys_sorted) |-> src_map[common_keys_sorted[i]].display]

\* 4) the dropdown returns a subset of its items
\* variant: an empty selection does not end the run
SelectFromListNoExit(picked) ==
  /\ pc = "select_params"
  /\ picked_display' = picked
  /\ pc' = "ask_extra"
  /\ picked_names' = PickedNames(common_keys_sorted, src_map, picked)
  /\ UNCHANGED <<outcome, docVars, pickVars, src_map, common_keys_sorted, extra, copyVars>>

\* lines 279-294
SelectFromList(picked) ==
  /\ pc = "select_params"
  /\ picked_display' = picked
  /\ IF picked = {}
     THEN /\ pc' = "exit"
          /\ outcome' = "no params"
          /\ UNCHANGED picked_names
     ELSE /\ pc' = "ask_extra"
          /\ picked_names' = PickedNames(common_keys_sorted, src_map, picked)
          /\ UNCHANGED outcome
  /\ UNCHANGED <<docVars, pickVars, src_map, common_keys_sorted, extra, copyVars>>

\* the free-text prompt; the transaction of 5) opens right after it
AskForString(typed) ==
  /\ pc = "ask_extra"
  /\ extra' = typed
  /\ picked_names' = WithExtras(picked_names, typed)
  /\ pc' = "copy"
  /\ txn_start' = params
  /\ UNCHANGED <<outcome, live, params, nremoved, pickVars, src_map,
                 common_keys_sorted, picked_display, copyVars>>

(* ---------------------------- 5) apply copy ---------------------------- *)
MaxFailSamples == 10
SampledReasons == {"missing", "read-only", "type mismatch", "elementid not in doc"}

\* a sample stands for the text u"{} -> {}".format(pname, why)
\* variant: no limit on the number of samples
RecordFailureNoCap(samples, pname, why) ==
  IF why \in SampledReasons THEN Append(samples, <<pname, why>>) ELSE samples

\* lines 336-337
RecordFailure(samples, pname, why) ==
  IF why \in SampledReasons /\ Len(samples) < MaxFailSamples
  THEN Append(samples, <<pname, why>>)
  ELSE samples

Call(tid, pname, r) ==
  [tid |-> tid, pname |-> pname, raised |-> r.raised, ok |-> r.ok, why |-> r.why,
   wrote |-> r.wrote]

\* a target the document no longer resolves (or one with nothing to copy)
\* is counted as skipped
SkipTarget ==
  /\ pc = "copy"
  /\ ti <= Len(target_ids)
  /\ GetElement(live, target_ids[ti]) = NoElement \/ picked_names = <<>>
  /\ elem_skipped' = elem_skipped + 1
  /\ ti' = ti + 1
  /\ UNCHANGED <<pc, outcome, docVars, pickVars, listVars, ni, ok_any, elem_updated,
                 sets_ok, sets_fail, fail_samples, calls, nfaults>>

\* one turn of the inner loop: _try_copy_by_name for the current target and
\* name, and the counting; after the last name the target is counted too
CopyField(fault) ==
  /\ pc = "copy"
  /\ ti <= Len(target_ids)
  /\ GetElement(live, target_ids[ti]) # NoElement
  /\ picked_names # <<>>
  /\ fault # "none" => nfaults < MaxFaults
  /\ LET tid == target_ids[ti]
         pname == picked_names[ni]
     IN \E r \in {_try_copy_by_name(params, live, source, tid, pname, fault)} :
        LET any == ok_any \/ r.ok IN
        /\ fault = "none" \/ r.met
        /\ nfaults' = IF fault = "none" THEN nfaults ELSE nfaults + 1
        /\ calls' = Append(calls, Call(tid, pname, r))
        /\ IF r.raised
           THEN \* the exception leaves the with block: rolled back, no report
                /\ pc' = "raised"
                /\ params' = txn_start
                /\ UNCHANGED <<ti, ni, ok_any, elem_updated, elem_skipped, sets_ok,
                               sets_fail, fail_samples>>
           ELSE /\ params' = r.P
                /\ sets_ok' = IF r.ok THEN sets_ok + 1 ELSE sets_ok
                /\ sets_fail' = IF r.ok THEN sets_fail ELSE sets_fail + 1
                /\ fail_samples' = IF r.ok THEN fail_samples
                                   ELSE RecordFailure(fail_samples, pname, r.why)
                /\ IF ni < Len(picked_names)
                   THEN /\ ni' = ni + 1
                        /\ ok_any' = any
                        /\ UNCHANGED <<ti, elem_updated, elem_skipped>>
                   ELSE /\ ni' = 1
                        /\ ti' = ti + 1
                        /\ ok_any' = FALSE
                        /\ elem_updated' = IF any THEN elem_updated + 1 ELSE elem_updated
                        /\ elem_skipped' = IF any THEN elem_skipped ELSE elem_skipped + 1
                /\ UNCHANGED pc
  /\ UNCHANGED <<outcome, live, txn_start, nremoved, pickVars, listVars>>

\* the transaction commits and 6) the report is shown
Report ==
  /\ pc = "copy"
  /\ ti > Len(target_ids)
  /\ pc' = "report"
  /\ outcome' = "report"
  /\ UNCHANGED <<docVars, pickVars, listVars, copyVars>>

\* between the prompts an element can leave the document; the script holds
\* on to the source it read
DocElementRemoved(e) ==
  /\ pc \in {"pick_targets", "select_params", "ask_extra"}
  /\ nremoved < MaxRemoved
  /\ e \in live \ {source}
  /\ live' = live \ {e}
  /\ nremoved' = nremoved + 1
  /\ UNCHANGED <<pc, outcome, params, txn_start, pickVars, listVars, copyVars>>

Next ==
  \/ \E r \in PickRefs : PickSource(r)
  \/ PickSourceRaises
  \/ \E r \in PickRefs : PickTarget(r)
  \/ \E ex \in PickExceptions : PickTargetRaises(ex)
  \/ /\ pc = "select_params"
     /\ \E picked \in SUBSET {display_items[i] : i \in 1..Len(display_items)} :
          SelectFromList(picked)
  \/ \E typed \in ExtraInputs : AskForString(typed)
  \/ SkipTarget
  \/ \E fault \in Faults : CopyField(fault)
  \/ Report
  \/ \E e \in ElementIds : DocElementRemoved(e)

Spec == Init /\ [][Next]_vars


(* ---------------------------- one call of _try_copy_by_name ------------ *)
\* A source (element 1) and a target (element 2) with at most one parameter
\* of the name asked for, of every storage type; the target also has a
\* parameter the call is not about.
CopySourceValues ==
  { <<"Double", DoubleVal(2)>>, <<"Integer", IntegerVal(3)>>,
    <<"String", NoneVal>>, <<"String", StringVal(<<>>)>>,
    <<"String", StringVal(<<"A">>)>>,
    <<"ElementId", InvalidElementId>>, <<"ElementId", ElementIdVal(3)>>,
    <<"ElementId", ElementIdVal(UnresolvedRef)>>, <<"None", NoneVal>> }

CopyTargetValues ==
  { <<"Double", DoubleVal(1)>>, <<"Integer", IntegerVal(0)>>,
    <<"String", StringVal(<<"B">>)>>, <<"String", NoneVal>>,
    <<"ElementId", ElementIdVal(2)>>, <<"None", NoneVal>> }

CopyParamNames == {Width, Arbeitsebene}

CopySources ==
  {<<>>} \cup {<<Param(n, tv[1], FALSE, tv[2])>> : n \in CopyParamNames, tv \in CopySourceValues}

CopyTargets ==
  { <<Param(Mark, "String", FALSE, StringVal(<<"X">>))>> \o t :
      t \in {<<>>} \cup {<<Param(n, tv[1], ro, tv[2])>> :
                           n \in CopyParamNames, tv \in CopyTargetValues, ro \in BOOLEAN} }

\* the names a caller may pass
CopyNames ==
  { Width, <<" ">> \o Width \o <<"\t">>, <<>>, <<" ", "\t">>, Arbeitsebene,
    <<" ">> \o Lower(Bauteilebene), Zone }

InitCopy ==
  /\ pc = "call"
  /\ outcome = ""
  /\ live = {1, 2, 3}
  /\ \E s \in CopySources, t \in CopyTargets :
       params = [e \in {1, 2} |-> IF e = 1 THEN s ELSE t]
  /\ txn_start = params
  /\ source = 1
  /\ target_ids = <<2>>
  /\ picks = <<>>
  /\ last_pick = ""
  /\ src_map = <<>>
  /\ common_keys_sorted = <<>>
  /\ picked_display = {}
  /\ extra = NoExtra
  /\ \E n \in CopyNames : picked_names = <<n>>
  /\ ti = 1
  /\ ni = 1
  /\ ok_any = FALSE
  /\ elem_updated = 0
  /\ elem_skipped = 0
  /\ sets_ok = 0
  /\ sets_fail = 0
  /\ fail_samples = <<>>
  /\ calls = <<>>
  /\ nfaults = 0
  /\ nremoved = 0

\* the call on its own: it returns (ok, why), or the exception leaves it
CallTryCopy(fault) ==
  /\ pc = "call"
  /\ LET r == _try_copy_by_name(params, live, source, target_ids[1], picked_names[1], fault)
     IN /\ fault = "none" \/ r.met
        /\ calls' = <<Call(target_ids[1], picked_names[1], r)>>
        /\ params' = r.P
        /\ pc' = IF r.raised THEN "raised" ELSE "returned"
  /\ UNCHANGED <<outcome, live, txn_start, nremoved, pickVars, listVars, ti, ni,
                 ok_any, elem_updated, elem_skipped, sets_ok, sets_fail,
                 fail_samples, nfaults>>

NextCopy == \E fault \in Faults : CallTryCopy(fault)

SpecCopy == InitCopy /\ [][NextCopy]_vars


(* ======================================================================= *)
(* Properties.  The vocabulary below is stated on its own, not through the *)
(* operators that model the script.                                        *)
(* ======================================================================= *)
Range(q) == {q[i] : i \in 1..Len(q)}

\* the trimmed name equals a BLOCKED_NAMES entry, case-insensitively
BlockedLowered == {Lower(Strip(BLOCKED_NAMES[i])) : i \in 1..Len(BLOCKED_NAMES)}
NameIsBlocked(n) == \E b \in BlockedLowered : Lower(Strip(n)) = b

Has(ps, n) == \E i \in 1..Len(ps) : ps[i].name = n
The(ps, n) == ps[CHOOSE i \in 1..Len(ps) : ps[i].name = n]

\* the single call of SpecCopy: the name asked for, the two elements before
\* the call, the target after it
AskedName == Strip(picked_names[1])
SrcBefore == txn_start[1]
DstBefore == txn_start[2]
DstAfter == params[2]
Returned == pc = "returned"

\* C1: whenever _try_copy_by_name returns ok = false, whatever the reason,
\* every parameter of the target element has the value it had before the call.
C1_FailedCopyLeavesTargetUnchanged ==
  (Returned /\ ~calls[1].ok) => DstAfter = DstBefore

\* a copy refused because the ElementId read from the source does not
\* resolve: the last check before the write
C1_Witness ==
  /\ Returned
  /\ ~calls[1].ok
  /\ calls[1].why = "elementid not in doc"
  /\ Has(DstBefore, AskedName) /\ ~The(DstBefore, AskedName).ro

\* C4 as claimed: whenever the call returns (True, ""), the value read from
\* the target's parameter afterwards equals the value read from the source's
\* parameter before, a source String with no value included.
C4_RoundTripExact ==
  (Returned /\ calls[1].ok) =>
     _get_param_value(The(DstAfter, AskedName)) = _get_param_value(The(SrcBefore, AskedName))

\* C4 amended: whenever the call returns (True, ""), the value read from the
\* target afterwards equals the value read from the source before, except
\* that a source String with no value reads back as the empty string.
C4_RoundTripNoneAsEmpty ==
  (Returned /\ calls[1].ok) =>
     LET before == _get_param_value(The(SrcBefore, AskedName))
         after == _get_param_value(The(DstAfter, AskedName))
     IN /\ calls[1].why = ""
        /\ after = IF The(SrcBefore, AskedName).st = "String" /\ before = NoneVal
                   THEN StringVal(<<>>)
                   ELSE before

\* a successful copy of a String without a value over a target that had one
C4_Witness ==
  /\ Returned
  /\ calls[1].ok
  /\ _get_param_value(The(SrcBefore, AskedName)) = NoneVal
  /\ _get_param_value(The(DstBefore, AskedName)) = StringVal(<<"B">>)
  /\ _get_param_value(The(DstAfter, AskedName)) = StringVal(<<>>)

\* C7: the reason of a failed call is that of the first failing check in
\* the order blocked/empty, missing, read-only, type mismatch: a read-only
\* target gives (False, read-only) whatever the storage types, and two
\* different storage types on a writable target give (False, type mismatch)
\* with no write.
C7_FirstFailingCheckDecides ==
  Returned =>
    LET n == AskedName
        c == calls[1]
        named == n # <<>> /\ ~NameIsBlocked(n)
        both == Has(SrcBefore, n) /\ Has(DstBefore, n)
    IN /\ ~named => (~c.ok /\ c.why = "blocked/empty")
       /\ (named /\ ~both) => (~c.ok /\ c.why = "missing")
       /\ (named /\ both /\ The(DstBefore, n).ro) => (~c.ok /\ c.why = "read-only")
       /\ (named /\ both /\ ~The(DstBefore, n).ro
             /\ The(SrcBefore, n).st # The(DstBefore, n).st)
            => (~c.ok /\ c.why = "type mismatch" /\ ~c.wrote /\ DstAfter = DstBefore)
       /\ c.why \in {"blocked/empty", "missing", "read-only", "type mismatch"}
            => (~c.wrote /\ DstAfter = DstBefore)

\* a read-only target whose storage type differs from the source's
C7_Witness ==
  /\ Returned
  /\ AskedName # <<>> /\ ~NameIsBlocked(AskedName)
  /\ Has(SrcBefore, AskedName) /\ Has(DstBefore, AskedName)
  /\ The(DstBefore, AskedName).ro
  /\ The(SrcBefore, AskedName).st # The(DstBefore, AskedName).st
  /\ calls[1].why = "read-only"


(* ---------------------------- the whole run ---------------------------- *)
\* the lower-cased names of an element that are neither empty nor blocked
KeysOf(e) ==
  {Lower(Strip(params[e][i].name)) :
     i \in {j \in 1..Len(params[e]) :
              Strip(params[e][j].name) # <<>> /\ ~NameIsBlocked(params[e][j].name)}}

\* the keys of the source that every resolvable target has too
Selectable ==
  {k \in KeysOf(source) :
     \A i \in 1..Len(target_ids) : target_ids[i] \in live => k \in KeysOf(target_ids[i])}

Reorderings(q) ==
  {[i \in 1..Len(q) |-> q[f[i]]] :
     f \in {g \in [1..Len(q) -> 1..Len(q)] : \A i, j \in 1..Len(q) : g[i] = g[j] => i = j}}

ExtraTokens == IF extra.given /\ extra.text # <<>> THEN Range(SplitComma(extra.text)) ELSE {}

\* C2: no parameter whose trimmed name equals a BLOCKED_NAMES entry,
\* case-insensitively, is offered in the dropdown, put on the copy list or
\* written: every such parameter of every element keeps its initial value.
C2_BlockedNeverOfferedPickedOrWritten ==
  /\ \A k \in DOMAIN src_map : ~NameIsBlocked(k) /\ ~NameIsBlocked(src_map[k].name)
  /\ \A i \in 1..Len(common_keys_sorted) : ~NameIsBlocked(common_keys_sorted[i])
  /\ \A i \in 1..Len(picked_names) : ~NameIsBlocked(picked_names[i])
  /\ \A i \in 1..Len(calls) : calls[i].wrote => ~NameIsBlocked(calls[i].pname)
  /\ \A e \in ElementIds : \A i \in 1..Len(params[e]) :
       params[e][i] # InitialParams[e][i] => ~NameIsBlocked(params[e][i].name)

\* a finished run that wrote something, with blocked parameters on the
\* source and on a target and a blocked name typed as an extra
C2_Witness ==
  /\ pc = "report"
  /\ \E tok \in ExtraTokens : NameIsBlocked(tok)
  /\ \E i \in 1..Len(calls) : calls[i].wrote
  /\ \E i \in 1..Len(params[source]) : NameIsBlocked(params[source][i].name)
  /\ \E t \in Range(target_ids) : \E i \in 1..Len(params[t]) :
       NameIsBlocked(params[t][i].name)

\* C3 as claimed: once the copy phase has started no field failure ends the
\* run, and at the final report _try_copy_by_name has been invoked for every
\* pair (resolvable target, picked name) in list order, with
\* sets_ok + sets_fail = resolvable targets x picked names.
C3_EveryPairAttemptedAndReported ==
  LET resolvable == SelectSeq(target_ids, LAMBDA t : t \in live)
      n == Len(picked_names)
  IN /\ ~(pc = "raised" /\ calls # <<>>)
     /\ pc = "report" =>
          /\ sets_ok + sets_fail = Len(resolvable) * n
          /\ Len(calls) = Len(resolvable) * n
          /\ \A i \in 1..Len(calls) :
               /\ calls[i].tid = resolvable[((i - 1) \div n) + 1]
               /\ calls[i].pname = picked_names[((i - 1) % n) + 1]

\* C5: when the target loop ends with targets picked, the keys offered are
\* the source's non-blocked lower-cased names that every resolvable target
\* has as well (none: the run ends with "no common"), and every permutation
\* of the target list gives the same keys.
C5_SelectableIsIntersection ==
  [][ (pc = "pick_targets" /\ last_pick' = "cancel" /\ target_ids # <<>>) =>
        \A sel \in {Selectable} : \A keys \in {DOMAIN _build_source_param_map(params[source])} :
          /\ IF sel = {}
             THEN pc' = "exit" /\ outcome' = "no common"
             ELSE /\ pc' = "select_params"
                  /\ Range(common_keys_sorted') = sel
                  /\ Len(common_keys_sorted') = Cardinality(sel)
          /\ \A q \in Reorderings(target_ids) : CommonKeys(keys, q, params, live) = sel ]_vars

\* the dropdown is up for two or more targets, one of which the document
\* no longer resolves and lacks a key that is offered
C5_Witness ==
  /\ pc = "select_params"
  /\ Len(target_ids) >= 2
  /\ \E t \in Range(target_ids) :
       /\ t \notin live
       /\ \E k \in Range(common_keys_sorted) : k \notin KeysOf(t)
  /\ \E t \in Range(target_ids) :
       t \in live /\ KeysOf(source) \ KeysOf(t) # {}

NothingWritten == params = InitialParams /\ calls = <<>>

\* C6: a run that ends before the copy phase (cancel, unreadable source, no
\* target, no common parameter, nothing selected) writes no parameter, and
\* a parameter is written only by a step of the copy phase.
C6_NoWriteOutsideCopyPhase ==
  /\ NothingWritten
  /\ [][ /\ params' # params => (pc = "copy" /\ pc' \in {"copy", "raised"})
         /\ pc' \in {"pick_source", "pick_targets", "select_params", "ask_extra", "exit"}
              => NothingWritten'
         /\ (source' = NoElement \/ target_ids' = <<>> \/ common_keys_sorted' = <<>>
               \/ picked_display' = {}) => NothingWritten' ]_vars

\* the run ended at "no common parameters" with several targets picked
C6_Witness ==
  /\ pc = "exit"
  /\ outcome = "no common"
  /\ Len(target_ids) >= 2
  /\ NothingWritten

\* C8: the copy list holds no two entries that are equal case-insensitively
\* and no empty or blocked entry; it is the dropdown picks followed by the
\* trimmed extras that are new.
C8_CopyListHasNoCaseDuplicates ==
  LET dropdown == {src_map[k].name : k \in {k \in DOMAIN src_map : src_map[k].display \in picked_display}}
      extras == {Strip(tok) : tok \in {t \in ExtraTokens : Strip(t) # <<>> /\ ~NameIsBlocked(t)}}
  IN /\ \A i, j \in 1..Len(picked_names) :
          Lower(picked_names[i]) = Lower(picked_names[j]) => i = j
     /\ \A i \in 1..Len(picked_names) :
          picked_names[i] # <<>> /\ ~NameIsBlocked(picked_names[i])
     /\ pc # "select_params" =>
          /\ Range(picked_names) \subseteq dropdown \cup extras
          /\ {Lower(n) : n \in Range(picked_names)} = {Lower(n) : n \in dropdown \cup extras}

\* the copy starts after an extra was typed that repeats, in another case, a
\* name picked in the dropdown, and one that was blocked
C8_Witness ==
  /\ pc = "copy"
  /\ \E tok \in ExtraTokens :
       /\ Strip(tok) \notin Range(picked_names)
       /\ \E k \in DOMAIN src_map :
            /\ src_map[k].display \in picked_display
            /\ Lower(Strip(tok)) = k
  /\ \E tok \in ExtraTokens : NameIsBlocked(tok)

\* C9: at the final report elem_updated + elem_skipped is the number of
\* targets, a target is counted as updated exactly when one of its copies
\* returned ok, and fail_samples holds the first failures, at most 10, whose
\* reason is missing, read-only, type mismatch or elementid not in doc.
C9_ReportCounts ==
  pc = "report" =>
    LET sampled == SelectSeq(calls, LAMBDA c : ~c.ok /\ c.why \in
                     {"missing", "read-only", "type mismatch", "elementid not in doc"})
        kept == IF Len(sampled) < 10 THEN Len(sampled) ELSE 10
    IN /\ elem_updated + elem_skipped = Len(target_ids)
       /\ elem_updated = Cardinality({i \in 1..Len(target_ids) :
                           \E j \in 1..Len(calls) :
                              calls[j].tid = target_ids[i] /\ calls[j].ok})
       /\ Len(fail_samples) <= 10
       /\ fail_samples = [i \in 1..kept |-> <<sampled[i].pname, sampled[i].why>>]

\* a report after more than ten sampled failures, with a target updated, a
\* target skipped
C9_Witness ==
  /\ pc = "report"
  /\ Len(fail_samples) = 10
  /\ Len(SelectSeq(calls, LAMBDA c : ~c.ok /\ c.why \in SampledReasons)) > 10
  /\ elem_updated >= 1
  /\ elem_skipped >= 1

\* C10: target_ids never holds an id twice nor the source's id; while the
\* loop runs an element is in the list exactly when it was picked an odd
\* number of times, in the order of the last picks; a pick keeps the loop
\* going and only the cancel signal takes the run on; the source is never
\* copied to.
C10_ToggleKeepsTargetsDistinct ==
  LET Count(e) == Cardinality({i \in 1..Len(picks) : picks[i] = e})
      LastPick(e) == CHOOSE i \in 1..Len(picks) :
                       picks[i] = e /\ \A j \in 1..Len(picks) : picks[j] = e => j <= i
  IN /\ \A i, j \in 1..Len(target_ids) : target_ids[i] = target_ids[j] => i = j
     /\ \A i \in 1..Len(target_ids) : target_ids[i] # source
     /\ pc = "pick_targets" =>
          /\ \A e \in ElementIds \ {source} : (e \in Range(target_ids)) <=> (Count(e) % 2 = 1)
          /\ \A i, j \in 1..Len(target_ids) :
               i < j => LastPick(target_ids[i]) < LastPick(target_ids[j])
     /\ last_pick = "picked" => pc = "pick_targets"
     /\ (pc \in {"select_params", "ask_extra", "copy", "report"}
           \/ (pc = "exit" /\ outcome \in {"no targets", "no common", "no params"}))
          => last_pick = "cancel"
     /\ \A i \in 1..Len(calls) : calls[i].tid # source

\* the loop is running, one element was picked twice and is gone again,
\* another was picked once and is in the list
C10_Witness ==
  /\ pc = "pick_targets"
  /\ \E e \in ElementIds :
       /\ Cardinality({i \in 1..Len(picks) : picks[i] = e}) = 2
       /\ e \notin Range(target_ids)
  /\ Len(target_ids) = 1

====
